---- MODULE Spec2Model ----
(***************************************************************************)
(* Model of src/Euserv_Renewal.py: RenewalBot.run() and everything it      *)
(* calls.  The program is single threaded; one action is one blocking      *)
(* I/O call (portal request, CAPTCHA recognition, mailbox poll, sleep)     *)
(* together with the local code that follows it up to the next I/O call.   *)
(* The outcome of every external call is chosen by the environment.        *)
(***************************************************************************)
EXTENDS Integers, Sequences, FiniteSets, TLC

\* ---------------------------------------------------------------- constants
LoginRetryCountOffByOne == 3 + 1
LOGIN_MAX_RETRY_COUNT == 3
EmailMaxRetriesOffByOne == 3 + 1
EMAIL_MAX_RETRIES == 3
EXIT_SUCCESS == 0
EXIT_FAILURE == 1
EXIT_SKIPPED == 2

\* ------------------------------------------------------------------- bounds
\* largest number of contracts a listing page holds in the model
MaxContracts == 2

\* ------------------------------------------------------- response contents
\* What _attempt_login looks for in a response body: the two
\* LOGIN_SUCCESS_INDICATORS, CAPTCHA_PROMPT and TWO_FA_PROMPT.
Markers == {"hello", "confirm", "captcha", "twofa"}
Responses == SUBSET Markers
LOGIN_SUCCESS_INDICATORS == {"hello", "confirm"}
\* Python's None where a response is expected
NoResponse == {"None"}

IsLoginSuccessAll(text) == \A ind \in LOGIN_SUCCESS_INDICATORS : ind \in text
_is_login_success(text) == \E ind \in LOGIN_SUCCESS_INDICATORS : ind \in text

HasCaptchaPrompt(text) == "captcha" \in text
HasTwoFaPrompt(text) == "twofa" \in text

VARIABLES
    pc,                     \* position of run() in the code
    cfg,                    \* environment configuration read at import
    attempt,                \* loop variable of _perform_login (0-based)
    current_login_attempt,  \* self.current_login_attempt
    session,                \* self.session: "none", "open" or "closed"
    jar,                    \* PHPSESSID held by the session's cookie jar, 0 = none
    sess_local,             \* local sess_id of _attempt_login, 0 = None
    sess_id,                \* self.sess_id, 0 = None
    f,                      \* local f of _attempt_login: the response inspected
    captcha_code,           \* answer returned by _solve_captcha, "" = none yet
    status,                 \* local status of run()
    exit_code,              \* local exit_code of run()
    ret,                    \* value returned by run(), -1 while running or raised
    fatal,                  \* exception caught by run()'s except clause
    escaped,                \* exception that left run() uncaught
    notifications,          \* calls of send_status_email
    notified,               \* status string of the last send_status_email call
    pending_log,            \* log_messages holds lines of run() no transcript carried
    servers,                \* all_servers of run(): the listing after login
    cur,                    \* position in servers of the contract being renewed
    all_success,            \* local of _process_server_renewals
    pin_try,                \* loop variable i of _get_pin_from_gmail
    pin,                    \* local pin of _renew: the email it came from, -1 = none
    token,                  \* local token of _renew: the contract it was issued for
    mailbox,                \* matching messages of today in the inbox, oldest first
    inflight,               \* PIN emails dispatched by the provider, not yet delivered
    \* history of the renewal phase (not program state)
    listings,               \* calls of _get_servers that returned a listing
    attempted,              \* contracts whose _renew was started
    failed,                 \* contracts logged as failed by _process_server_renewals
    pin_failed,             \* contracts whose _renew raised PinRetrievalError
    confirmed,              \* contracts whose final confirmation POST was accepted
    pin_used,               \* contract -> email whose PIN went into its token exchange
    post_checked,           \* _check_post_renewal_status ran to its end
    started,                \* contracts whose _renew was called, in call order
    flow,                   \* steps of the latest _renew call, in order
    rejected,               \* contracts whose token exchange raised RenewalError
    has_valid_date,         \* local of _fetch_server_list_with_retry, <<>> = not assigned
    \* history of the login phase (not program state)
    sessions_created,       \* requests.Session() objects constructed
    last_resp,              \* body of the most recent portal response
    cred_resp,              \* response to the credential POST of this attempt
    trace,                  \* calls made by the current login attempt, in order
    api_log,                \* requests and sleeps of the latest _solve_captcha_api call
    outcomes,               \* how each finished login attempt ended
    \* the module-level functions, called on their own
    called,                 \* which function was called: "none" while run() is modelled
    expr,                   \* argument expr of _safe_eval_math, one character per element
    math_result,            \* what _safe_eval_math returned: {} for None, {n} for n
    key,                    \* argument key of _hotp, one character per element
    counter,                \* argument counter of _hotp
    hmac_sha1,              \* HMAC-SHA1 at the point this call asks for
    otp,                    \* what _hotp returned, <<>> before the call
    key_again,              \* key of a second _hotp call with the same counter
    otp_again,              \* what the second call returned
    ex_inbox,               \* get_euserv_pin: matching messages of today, oldest first
    ex_try,                 \* loop variable i of get_euserv_pin
    ex_log,                 \* steps of the get_euserv_pin call, in order
    ex_result               \* "running", "return", or the exception it raised

vars == <<pc, cfg, attempt, current_login_attempt, session, jar, sess_local,
          sess_id, f, captcha_code, status, exit_code, ret, fatal, escaped,
          notifications, notified, pending_log, servers, cur, all_success, pin_try, pin, token,
          mailbox, inflight, listings, attempted, failed, pin_failed, confirmed,
          pin_used, post_checked, started, flow, rejected, has_valid_date,
          sessions_created, last_resp, cred_resp, trace, outcomes, api_log,
          called, expr, math_result, key, counter, hmac_sha1, otp, key_again,
          otp_again, ex_inbox, ex_try, ex_log, ex_result>>

loginLocals == <<sess_local, f, captcha_code, last_resp, cred_resp, trace,
                api_log>>
runLocals == <<status, exit_code, ret, fatal, escaped, notifications, notified,
               pending_log>>
mathVars == <<expr, math_result>>
hotpVars == <<key, counter, hmac_sha1, otp, key_again, otp_again>>
extractorVars == <<ex_inbox, ex_try, ex_log, ex_result>>
pureVars == <<called, mathVars, hotpVars, extractorVars>>
renewVars == <<servers, cur, all_success, pin_try, pin, token, mailbox, inflight,
               listings, attempted, failed, pin_failed, confirmed, pin_used,
               post_checked, started, flow, rejected, has_valid_date>>

\* validate_config lines 190-196: the values a run cannot do without
Required == {"EUSERV_USERNAME", "EUSERV_PASSWORD", "EMAIL_HOST",
             "EMAIL_USERNAME", "EMAIL_PASSWORD"}

\* missing: the required values that are unset or empty; twofa: EUSERV_2FA is
\* set; api: CAPTCHA_USERID and CAPTCHA_APIKEY are set
Configs == [missing : SUBSET Required, twofa : BOOLEAN, api : BOOLEAN]

\* validate_config lines 197-198: nothing required is missing
ValidatePortalOnly(c) ==
    c.missing \cap {"EUSERV_USERNAME", "EUSERV_PASSWORD"} = {}
validate_config(c) == c.missing = {}

\* ------------------------------------------------------------ construction
\* No module-level function has been called on its own.
MathIdle ==
    /\ expr = <<>>
    /\ math_result = {}
HotpIdle ==
    /\ key = <<>>
    /\ counter = 0
    /\ hmac_sha1 = <<>>
    /\ otp = <<>>
    /\ key_again = <<>>
    /\ otp_again = <<>>
ExtractorIdle ==
    /\ ex_inbox = <<>>
    /\ ex_try = 0
    /\ ex_log = <<>>
    /\ ex_result = "running"
NotCalled ==
    /\ called = "none"
    /\ MathIdle
    /\ HotpIdle
    /\ ExtractorIdle

\* RenewalBot.__init__ and the locals of run() before its first statement.
RunInit ==
    /\ pc = "start"
    /\ cfg \in Configs
    /\ attempt = 0
    /\ current_login_attempt = 1
    /\ session = "none"
    /\ jar = 0
    /\ sess_local = 0
    /\ sess_id = 0
    /\ f = NoResponse
    /\ captcha_code = ""
    /\ status = "success"
    /\ exit_code = EXIT_SUCCESS
    /\ ret = -1
    /\ fatal = "none"
    /\ escaped = "none"
    /\ notifications = 0
    /\ notified = "none"
    /\ pending_log = FALSE
    /\ servers = <<>>
    /\ cur = 0
    /\ all_success = TRUE
    /\ pin_try = 0
    /\ pin = -1
    /\ token = 0
    /\ mailbox \in {<<>>, <<[tag |-> 0, has_pin |-> TRUE]>>}
    /\ inflight = {}
    /\ listings = 0
    /\ attempted = {}
    /\ failed = {}
    /\ pin_failed = {}
    /\ confirmed = {}
    /\ pin_used = {}
    /\ post_checked = FALSE
    /\ started = <<>>
    /\ flow = <<>>
    /\ rejected = {}
    /\ has_valid_date = <<>>
    /\ sessions_created = 0
    /\ last_resp = {}
    /\ cred_resp = {}
    /\ trace = <<>>
    /\ outcomes = <<>>
    /\ api_log = <<>>

Init == NotCalled /\ RunInit

\* The module is imported and run() is not called.
Imported ==
    /\ RunInit
    /\ cfg = [missing |-> {}, twofa |-> FALSE, api |-> FALSE]
    /\ mailbox = <<>>

\* --------------------------------------------------------- leaving run()
\* _cleanup(): closes the session if there is one.
Closed(s) == IF s = "open" THEN "closed" ELSE s

\* An exception listed in run()'s except clause: classified as failure, then
\* the finally block (cleanup, notification) and the return.
CaughtByRun(exc) ==
    /\ exc \in {"LoginError", "RenewalError", "PinRetrievalError", "CaptchaError"}
    /\ status' = "failure"
    /\ exit_code' = EXIT_FAILURE
    /\ fatal' = exc
    /\ session' = Closed(session)
    /\ notifications' = notifications + 1
    /\ notified' = "failure"
    /\ pending_log' = FALSE
    /\ ret' = EXIT_FAILURE
    /\ escaped' = "none"
    /\ pc' = "done"

\* Any other exception: only the finally block runs, run() returns nothing.
EscapesRun(exc) ==
    /\ exc \notin {"LoginError", "RenewalError", "PinRetrievalError", "CaptchaError"}
    /\ escaped' = exc
    /\ session' = Closed(session)
    /\ notifications' = notifications + 1
    /\ notified' = status
    /\ pending_log' = FALSE
    /\ pc' = "done"
    /\ UNCHANGED <<status, exit_code, fatal, ret>>

\* What run() does with an exception that reaches its try block.
RaiseInRun(exc) ==
    IF exc \in {"LoginError", "RenewalError", "PinRetrievalError", "CaptchaError"}
    THEN CaughtByRun(exc)
    ELSE EscapesRun(exc)

\* ------------------------------------------------------------------ run()
\* validate_config, the early return on missing configuration, otherwise
\* the head of _perform_login: one Session for the whole login.
RunStart ==
    /\ pc = "start"
    /\ UNCHANGED pureVars
    /\ IF ~validate_config(cfg)
       THEN /\ notifications' = notifications + 1
            /\ notified' = "config_error"
            /\ pending_log' = FALSE
            /\ ret' = EXIT_FAILURE
            /\ pc' = "done"
            /\ UNCHANGED <<session, jar, sessions_created>>
       ELSE /\ session' = "open"
            /\ jar' = 0
            /\ sessions_created' = sessions_created + 1
            /\ pc' = "login_loop"
            /\ pending_log' = TRUE
            /\ UNCHANGED <<notifications, notified, ret>>
    /\ UNCHANGED <<cfg, attempt, current_login_attempt, sess_id, status,
                   exit_code, fatal, escaped, outcomes>>
    /\ UNCHANGED loginLocals
    /\ UNCHANGED renewVars

\* ---------------------------------------------------------- _perform_login
\* Head of `for attempt in range(LOGIN_MAX_RETRY_COUNT)`: next attempt, or
\* LoginError once the range is exhausted.
LoginLoopBody ==
    /\ attempt < LOGIN_MAX_RETRY_COUNT
    /\ current_login_attempt' = attempt + 1
    /\ sess_local' = 0
    /\ f' = NoResponse
    /\ captcha_code' = ""
    /\ last_resp' = {}
    /\ cred_resp' = {}
    /\ trace' = <<>>
    /\ api_log' = <<>>
    /\ pc' = "init_get"
    /\ UNCHANGED <<session, sess_id, outcomes, attempt, jar, sessions_created>>
    /\ UNCHANGED runLocals

LoginLoopExhausted ==
    /\ attempt >= LOGIN_MAX_RETRY_COUNT
    /\ RaiseInRun("LoginError")
    /\ UNCHANGED <<current_login_attempt, sess_id, outcomes,
                   attempt, jar, sessions_created>>
    /\ UNCHANGED loginLocals

LoginLoop ==
    /\ pc = "login_loop"
    /\ UNCHANGED pureVars
    /\ cfg' = cfg
    /\ UNCHANGED renewVars
    /\ \/ LoginLoopBody
       \/ LoginLoopExhausted

\* --------------------------------------------------- ends of an attempt
\* `return None`, or an exception _perform_login catches (lines 413-418):
\* the loop goes on with the next value of `attempt`.
AttemptFailedNotCounted(kind) ==
    /\ kind \in {"fail", "request", "cookie"}
    /\ outcomes' = <<kind>>
    /\ UNCHANGED attempt
    /\ pc' = "login_loop"
    /\ UNCHANGED <<sess_id, session>>
    /\ UNCHANGED runLocals
AttemptFailed(kind) ==
    /\ kind \in {"fail", "request", "cookie"}
    /\ outcomes' = Append(outcomes, kind)
    /\ attempt' = attempt + 1
    /\ pc' = "login_loop"
    /\ UNCHANGED <<sess_id, session>>
    /\ UNCHANGED runLocals

\* `return sess_id, self.session` after `self.sess_id = sess_id`;
\* _perform_login returns it at once (lines 415-416).
AttemptSucceededKeepsId ==
    /\ UNCHANGED sess_id
    /\ outcomes' = Append(outcomes, "success")
    /\ pc' = "logged_in"
    /\ UNCHANGED <<attempt, session>>
    /\ UNCHANGED runLocals
AttemptSucceeded ==
    /\ sess_id' = sess_local
    /\ outcomes' = Append(outcomes, "success")
    /\ pc' = "logged_in"
    /\ UNCHANGED <<attempt, session>>
    /\ UNCHANGED runLocals

\* CaptchaError is neither RequestException nor ValueError: the except clause
\* of _perform_login (line 417) lets it through to run().
AttemptCaptchaError ==
    /\ outcomes' = Append(outcomes, "captcha_error")
    /\ RaiseInRun("CaptchaError")
    /\ UNCHANGED <<attempt, sess_id>>

AttemptContinues(next) ==
    /\ pc' = next
    /\ UNCHANGED <<attempt, outcomes, sess_id, session>>
    /\ UNCHANGED runLocals

AttemptGoto(label) ==
    CASE label = "success" -> AttemptSucceeded
      [] label = "fail" -> AttemptFailed("fail")
      [] label = "captcha_error" -> AttemptCaptchaError
      [] OTHER -> AttemptContinues(label)

\* ------------------------------------------- decisions of _attempt_login
\* lines 457-463: the last check of the attempt
FinalCheckAlways(text) == "success"
FinalCheck(text) == IF _is_login_success(text) THEN "success" ELSE "fail"

\* lines 452-455 with _handle_2fa's first test (lines 365-367)
TwoFaStageNoSecretCheck(text) ==
    IF HasTwoFaPrompt(text) THEN "twofa_post" ELSE FinalCheck(text)
TwoFaStage(text) ==
    IF HasTwoFaPrompt(text)
    THEN (IF cfg.twofa THEN "twofa_post" ELSE "fail")
    ELSE FinalCheck(text)

\* lines 440-455 on the response to the credential POST
AfterCredPostCaptchaFirst(text) ==
    IF HasCaptchaPrompt(text) THEN "img_get"
    ELSE IF _is_login_success(text) THEN "success"
    ELSE TwoFaStage(text)
AfterCredPost(text) ==
    IF _is_login_success(text) THEN "success"
    ELSE IF HasCaptchaPrompt(text) THEN "img_get"
    ELSE TwoFaStage(text)

\* _handle_captcha lines 349-360 and the caller's lines 448-455
AfterCaptchaPostIgnorePrompt(text) == TwoFaStage(text)
AfterCaptchaPost(text) ==
    IF HasCaptchaPrompt(text) THEN "fail" ELSE TwoFaStage(text)

\* _handle_2fa lines 378-382 and the caller's lines 454-463
AfterTwoFaPostIgnorePrompt(text) == FinalCheck(text)
AfterTwoFaPost(text) ==
    IF HasTwoFaPrompt(text) THEN "fail" ELSE FinalCheck(text)

\* two_fa_code = _totp(EUSERV_2FA) is computed on the way to the 2FA POST
TotpEvent(label) == IF label = "twofa_post" THEN <<"totp">> ELSE <<>>

\* ---------------------------------------------------------- _attempt_login
\* lines 424-428: the initial GET; the session sends the cookie it holds, the
\* server answers with a Set-Cookie for a new PHPSESSID or with none.
InitGet ==
    /\ pc = "init_get"
    /\ UNCHANGED pureVars
    /\ UNCHANGED api_log
    /\ trace' = Append(trace, "init_get")
    /\ \/ /\ AttemptFailed("request")
          /\ UNCHANGED <<jar, sess_local, last_resp>>
       \/ \E cookie \in {0, current_login_attempt} :
            /\ jar' = IF cookie = 0 THEN jar ELSE cookie
            /\ sess_local' = cookie
            /\ last_resp' = {}
            /\ IF cookie = 0
               THEN AttemptFailed("cookie")
               ELSE AttemptContinues("logo_get")
    /\ UNCHANGED renewVars
    /\ UNCHANGED <<cfg, current_login_attempt, sessions_created,
                   f, captcha_code, cred_resp>>

\* line 431: the logo fetch, its response is not looked at
LogoGet ==
    /\ pc = "logo_get"
    /\ UNCHANGED pureVars
    /\ UNCHANGED api_log
    /\ trace' = Append(trace, "logo_get")
    /\ \/ /\ AttemptFailed("request")
          /\ UNCHANGED last_resp
       \/ /\ AttemptContinues("cred_post")
          /\ last_resp' = {}
    /\ UNCHANGED renewVars
    /\ UNCHANGED <<cfg, current_login_attempt, sessions_created,
                   jar, sess_local, f, captcha_code, cred_resp>>

\* lines 433-463 up to the next request
CredPost ==
    /\ pc = "cred_post"
    /\ UNCHANGED pureVars
    /\ UNCHANGED api_log
    /\ \/ /\ AttemptFailed("request")
          /\ trace' = Append(trace, "cred_post")
          /\ UNCHANGED <<f, last_resp, cred_resp>>
       \/ \E text \in Responses :
            /\ f' = text
            /\ last_resp' = text
            /\ cred_resp' = text
            /\ trace' = Append(trace, "cred_post") \o TotpEvent(AfterCredPost(text))
            /\ AttemptGoto(AfterCredPost(text))
    /\ UNCHANGED renewVars
    /\ UNCHANGED <<cfg, current_login_attempt, sessions_created,
                   jar, sess_local, captcha_code>>

\* ----------------------------------------------------------- _solve_captcha
\* lines 299-301: where recognition starts
SolverEntryLocalFirst == "local"
SolverEntry ==
    IF current_login_attempt >= 3 /\ cfg.api THEN "api_first" ELSE "local"

\* lines 302-307: after the forced API call
AfterApiFirst(result) ==
    IF result # "" THEN "captcha_post" ELSE "local"

\* lines 308-325: after local recognition
AfterLocalAlwaysApi(result) ==
    IF cfg.api THEN "api_fallback"
    ELSE IF result \notin {"", "throw"} THEN "captcha_post" ELSE "captcha_error"
AfterLocalNoFallback(result) ==
    IF result \notin {"", "throw"} THEN "captcha_post" ELSE "captcha_error"
AfterLocal(result) ==
    IF result \notin {"", "throw"} THEN "captcha_post"
    ELSE IF cfg.api THEN "api_fallback" ELSE "captcha_error"

\* lines 319-323: after the fallback API call
AfterApiFallback(result) ==
    IF result # "" THEN "captcha_post" ELSE "captcha_error"

\* _solve_captcha_api returns None or a non-empty text (lines 278-293)
ApiResults == {"", "api_ans"}

\* --- the retry loop of _solve_captcha_api, lines 271-293
max_retries == 3
\* what one request to the API comes to: "exception" is a
\* requests.RequestException from post, raise_for_status (an HTTP error
\* status) or json; "error" is a body with status 'error'; "text" is a body
\* with a non-empty result; "empty" is a body with neither
RequestOutcomes == {"exception", "error", "text", "empty"}
ApiOutcomes == [1..max_retries -> RequestOutcomes]
\* lines 278-286: the request after which the call returns
EndsCallOnTextOnly(o) == o = "text"
EndsCall(o) == o \in {"error", "text"}
\* lines 288-291: the sleep after a failed request
BackoffAlways(o, i) == IF o = "exception" THEN <<"sleep">> ELSE <<>>
Backoff(o, i) ==
    IF o = "exception" /\ i < max_retries - 1 THEN <<"sleep">> ELSE <<>>
\* the requests and sleeps of one call, from loop index i on
RECURSIVE ApiSteps(_, _)
ApiSteps(outs, i) ==
    IF i >= max_retries THEN <<>>
    ELSE IF EndsCall(outs[i + 1]) THEN <<outs[i + 1]>>
    ELSE <<outs[i + 1]>> \o Backoff(outs[i + 1], i) \o ApiSteps(outs, i + 1)
\* what the call returns
ApiResult(outs) ==
    IF "text" \in {ApiSteps(outs, 0)[j] : j \in 1..Len(ApiSteps(outs, 0))}
    THEN "api_ans" ELSE ""
\* _solve_captcha_local returns None or a non-empty text, or throws
LocalResults == {"", "local_ans", "throw"}

Usable(result) == IF result \in {"", "throw"} THEN "" ELSE result

\* what the attempt's trace records of a recognition call
ApiEvent(result) == IF result = "" THEN "api:none" ELSE "api:answer"
LocalEvent(result) ==
    CASE result = "" -> "local:none"
      [] result = "throw" -> "local:throw"
      [] OTHER -> "local:answer"

\* _handle_captcha lines 333-337: fetch the image, enter the solver
ImgGet ==
    /\ pc = "img_get"
    /\ UNCHANGED pureVars
    /\ UNCHANGED api_log
    /\ trace' = Append(trace, "img_get")
    /\ \/ /\ AttemptFailed("request")
          /\ UNCHANGED last_resp
       \/ /\ AttemptContinues(SolverEntry)
          /\ last_resp' = {}
    /\ UNCHANGED renewVars
    /\ UNCHANGED <<cfg, current_login_attempt, sessions_created,
                   jar, sess_local, f, captcha_code, cred_resp>>

ApiFirst ==
    /\ pc = "api_first"
    /\ UNCHANGED pureVars
    /\ \E outs \in ApiOutcomes :
        LET result == ApiResult(outs)
        IN /\ api_log' = ApiSteps(outs, 0)
           /\ trace' = Append(trace, ApiEvent(result))
           /\ captcha_code' = Usable(result)
           /\ AttemptGoto(AfterApiFirst(result))
    /\ UNCHANGED renewVars
    /\ UNCHANGED <<cfg, current_login_attempt, sessions_created,
                   jar, sess_local, f, last_resp, cred_resp>>

Local ==
    /\ pc = "local"
    /\ UNCHANGED pureVars
    /\ UNCHANGED api_log
    /\ \E result \in LocalResults :
        /\ trace' = Append(trace, LocalEvent(result))
        /\ captcha_code' = Usable(result)
        /\ AttemptGoto(AfterLocal(result))
    /\ UNCHANGED renewVars
    /\ UNCHANGED <<cfg, current_login_attempt, sessions_created,
                   jar, sess_local, f, last_resp, cred_resp>>

ApiFallback ==
    /\ pc = "api_fallback"
    /\ UNCHANGED pureVars
    /\ \E outs \in ApiOutcomes :
        LET result == ApiResult(outs)
        IN /\ api_log' = ApiSteps(outs, 0)
           /\ trace' = Append(trace, ApiEvent(result))
           /\ captcha_code' = IF result # "" THEN result ELSE captcha_code
           /\ AttemptGoto(AfterApiFallback(result))
    /\ UNCHANGED renewVars
    /\ UNCHANGED <<cfg, current_login_attempt, sessions_created,
                   jar, sess_local, f, last_resp, cred_resp>>

\* _handle_captcha lines 339-360 and _attempt_login lines 448-463
CaptchaPost ==
    /\ pc = "captcha_post"
    /\ UNCHANGED pureVars
    /\ api_log' = <<>>
    /\ \/ /\ AttemptFailed("request")
          /\ trace' = Append(trace, "captcha_post")
          /\ UNCHANGED <<f, last_resp>>
       \/ \E text \in Responses :
            /\ last_resp' = text
            /\ f' = IF HasCaptchaPrompt(text) THEN NoResponse ELSE text
            /\ trace' = Append(trace, "captcha_post")
                            \o TotpEvent(AfterCaptchaPost(text))
            /\ AttemptGoto(AfterCaptchaPost(text))
    /\ UNCHANGED renewVars
    /\ UNCHANGED <<cfg, current_login_attempt, sessions_created,
                   jar, sess_local, captcha_code, cred_resp>>

\* _handle_2fa lines 372-382 and _attempt_login lines 454-463
TwoFaPost ==
    /\ pc = "twofa_post"
    /\ UNCHANGED pureVars
    /\ UNCHANGED api_log
    /\ \/ /\ AttemptFailed("request")
          /\ trace' = Append(trace, "twofa_post")
          /\ UNCHANGED <<f, last_resp>>
       \/ \E text \in Responses :
            /\ last_resp' = text
            /\ f' = IF HasTwoFaPrompt(text) THEN NoResponse ELSE text
            /\ trace' = Append(trace, "twofa_post")
            /\ AttemptGoto(AfterTwoFaPost(text))
    /\ UNCHANGED renewVars
    /\ UNCHANGED <<cfg, current_login_attempt, sessions_created,
                   jar, sess_local, captcha_code, cred_resp>>

\* -------------------------------------------------------------- listings
\* _parse_server_row: a contract row is renewable (no date), or carries the
\* renewal-date pattern with a date that parses ("dated") or not ("undated").
RowKinds == {"renewable", "dated", "undated"}
Listings == UNION {[1..n -> RowKinds] : n \in 0..MaxContracts}

Renewable(listing) == {i \in DOMAIN listing : listing[i] = "renewable"}
HasValidDate(listing) == \E i \in DOMAIN listing : listing[i] = "dated"

Max(S) == CHOOSE x \in S : \A y \in S : x >= y
Min(S) == CHOOSE x \in S : \A y \in S : x <= y

\* the finally block of run() followed by `return code`
ReturnFromRunLogsLast(code) ==
    /\ session' = Closed(session)
    /\ notifications' = notifications + 1
    /\ notified' = status
    /\ pending_log' = TRUE
    /\ ret' = code
    /\ pc' = "done"
    /\ UNCHANGED <<fatal, escaped>>
ReturnFromRun(code) ==
    /\ session' = Closed(session)
    /\ notifications' = notifications + 1
    /\ notified' = status
    /\ pending_log' = FALSE
    /\ ret' = code
    /\ pc' = "done"
    /\ UNCHANGED <<fatal, escaped>>

\* run() lines 713-725: the three-way branch on the listing after login
AfterListingNoSkip(listing) ==
    IF listing = <<>> THEN "anomaly" ELSE "renew"
AfterListing(listing) ==
    IF listing = <<>> THEN "anomaly"
    ELSE IF Renewable(listing) = {} THEN "skip"
    ELSE "renew"

\* run() lines 710-725: the listing after login and the three-way branch
ListServers ==
    /\ pc = "logged_in"
    /\ UNCHANGED pureVars
    /\ UNCHANGED has_valid_date
    /\ attempt' = 0
    /\ sess_local' = 0
    /\ f' = NoResponse
    /\ captcha_code' = ""
    /\ last_resp' = {}
    /\ cred_resp' = {}
    /\ trace' = <<>>
    /\ api_log' = <<>>
    /\ outcomes' = <<>>
    /\ \/ /\ RaiseInRun("RequestException")
          /\ UNCHANGED <<servers, cur, all_success, listings>>
       \/ \E listing \in Listings :
            /\ servers' = listing
            /\ listings' = listings + 1
            /\ all_success' = TRUE
            /\ CASE AfterListing(listing) = "anomaly" ->
                    /\ status' = "anomaly"
                    /\ exit_code' = EXIT_FAILURE
                    /\ pc' = "post_list"
                    /\ cur' = 0
                    /\ UNCHANGED <<session, notifications, notified, pending_log, ret,
                                   fatal, escaped>>
                 [] AfterListing(listing) = "skip" ->
                    /\ ReturnFromRun(EXIT_SKIPPED)
                    /\ cur' = 0
                    /\ UNCHANGED <<status, exit_code>>
                 [] OTHER ->
                    \* _process_server_renewals: a loop over servers_to_renew
                    /\ IF Renewable(listing) = {}
                       THEN cur' = 0 /\ pc' = "post_list"
                       ELSE cur' = Min(Renewable(listing)) /\ pc' = "renew_select"
                    /\ UNCHANGED <<session>>
                    /\ UNCHANGED runLocals
    /\ UNCHANGED <<cfg, current_login_attempt, jar, sess_id, sessions_created,
                   pin_try, pin, token, mailbox, inflight, attempted, failed,
                   pin_failed, confirmed, pin_used, post_checked, started,
                   flow, rejected>>

\* ------------------------------------------------ _process_server_renewals
loginVars == <<cfg, attempt, current_login_attempt, jar, sess_local, sess_id, f,
               captcha_code, sessions_created, last_resp,
               cred_resp, trace, outcomes, api_log>>
\* everything run() works on
runVars == <<pc, session, loginVars, runLocals, renewVars>>

\* the locals of _renew are gone once it returned or raised
LeaveRenew ==
    /\ pin' = -1
    /\ token' = 0
    /\ pin_try' = 0

\* The inbox is read only by _get_pin_from_gmail, inside the renewal loop:
\* once the loop is left, what the inbox holds and what is still on its way
\* is no longer followed.
InboxLeft ==
    /\ mailbox' = <<>>
    /\ inflight' = {}

\* line 639: the exceptions the per-contract try block catches
CaughtPerContract(exc) == exc \in {"RenewalError", "RequestException"}

\* lines 634-642 and run() lines 723-725: the contract is done (ok, or its
\* exception was caught and logged); on to the next renewable contract, or out
\* of the loop and on to the post check.
AllSuccessLastDecides(before, ok) == ok
AllSuccess(before, ok) == before /\ ok
LoopAdvance(ok) ==
    LET rest == {i \in Renewable(servers) : i > cur}
        success == AllSuccess(all_success, ok)
    IN  /\ all_success' = success
        /\ failed' = IF ok THEN failed ELSE failed \cup {cur}
        /\ IF rest # {}
           THEN /\ cur' = Min(rest)
                /\ pc' = "renew_select"
                /\ UNCHANGED <<status, exit_code, mailbox, inflight>>
           ELSE /\ cur' = 0
                /\ pc' = "post_list"
                /\ status' = IF success THEN status ELSE "failure"
                /\ exit_code' = IF success THEN exit_code ELSE EXIT_FAILURE
                /\ InboxLeft
        /\ UNCHANGED <<session, notifications, notified, pending_log, ret, fatal,
                       escaped>>

\* what `flow` records when _renew is left by an exception
RaiseEvent(exc) ==
    CASE exc = "RenewalError" -> "raise:RenewalError"
      [] exc = "PinRetrievalError" -> "raise:PinRetrievalError"
      [] OTHER -> "raise:RequestException"

\* the steps of the running _renew call; the call that starts at
\* "renew_select" has made none yet
FlowSoFar == IF pc = "renew_select" THEN <<>> ELSE flow

\* an exception raised inside _renew, after the steps evs
FlowRaises(evs, exc) ==
    /\ flow' = FlowSoFar \o evs \o <<RaiseEvent(exc)>>
    /\ pin_failed' = IF exc = "PinRetrievalError"
                     THEN pin_failed \cup {cur} ELSE pin_failed
    /\ rejected' = IF exc = "RenewalError"
                   THEN rejected \cup {cur} ELSE rejected
    /\ IF CaughtPerContract(exc)
       THEN LoopAdvance(FALSE)
       ELSE /\ RaiseInRun(exc)
            /\ InboxLeft
            /\ UNCHANGED <<cur, all_success, failed>>

\* _renew goes on to its next blocking call after the steps evs
FlowContinues(evs, next) ==
    /\ flow' = FlowSoFar \o evs
    /\ pc' = next
    /\ UNCHANGED <<cur, all_success, failed, pin_failed, rejected, mailbox>>
    /\ UNCHANGED runLocals
    /\ UNCHANGED session

\* line 596: _renew returns True after the steps evs
FlowReturns(evs) ==
    /\ flow' = FlowSoFar \o evs \o <<"return">>
    /\ LoopAdvance(TRUE)
    /\ UNCHANGED <<pin_failed, rejected>>

\* ------------------------------------------------------------------ _renew
\* lines 563-570: select the contract
RenewSelect ==
    /\ pc = "renew_select"
    /\ UNCHANGED pureVars
    /\ UNCHANGED has_valid_date
    /\ attempted' = attempted \cup {cur}
    /\ started' = Append(started, cur)
    /\ \/ /\ FlowRaises(<<"select">>, "RequestException")
          /\ LeaveRenew
       \/ /\ FlowContinues(<<"select">>, "renew_dispatch")
          /\ UNCHANGED <<pin, token, pin_try, inflight>>
    /\ UNCHANGED <<servers, listings, confirmed, pin_used, post_checked>>
    /\ UNCHANGED loginVars

\* lines 571-575: ask the provider to email a PIN for the selected contract
RenewDispatch ==
    /\ pc = "renew_dispatch"
    /\ UNCHANGED pureVars
    /\ UNCHANGED has_valid_date
    /\ \/ /\ FlowRaises(<<"dispatch">>, "RequestException")
          /\ LeaveRenew
       \/ /\ FlowContinues(<<"dispatch">>, "settle")
          /\ inflight' = inflight \cup {cur}
          /\ UNCHANGED <<pin, token, pin_try>>
    /\ UNCHANGED <<servers, listings, attempted, confirmed, pin_used,
                   post_checked, started>>
    /\ UNCHANGED loginVars

\* line 576: time.sleep(WAITING_TIME_OF_PIN)
Settle ==
    /\ pc = "settle"
    /\ UNCHANGED pureVars
    /\ UNCHANGED has_valid_date
    /\ FlowContinues(<<"settle">>, "pin_poll")
    /\ pin_try' = 0
    /\ UNCHANGED <<pin, token, inflight>>
    /\ UNCHANGED <<servers, listings, attempted, confirmed, pin_used,
                   post_checked, started>>
    /\ UNCHANGED loginVars

\* _fetch_pin_from_email: the last message of the search result, and the PIN
\* in its body if the pattern matches; -1 is None.
FetchPinFirst(mb) ==
    IF mb = <<>> THEN -1
    ELSE IF mb[1].has_pin THEN mb[1].tag ELSE -1
_fetch_pin_from_email(mb) ==
    IF mb = <<>> THEN -1
    ELSE IF mb[Len(mb)].has_pin THEN mb[Len(mb)].tag ELSE -1

\* how one round of the polling loop can go: the connection, login or search
\* fails, or the search is answered and a PIN is or is not extracted
PollKinds == {"imap_error", "found", "not_found"}

\* lines 500-514: what round i of the loop does with the outcome of its poll
AfterPollRetryOnError(kind, i) ==
    IF kind = "found" THEN "return"
    ELSE IF i + 1 < EMAIL_MAX_RETRIES THEN "retry" ELSE "raise"
AfterPollReturnsNone(kind, i) ==
    CASE kind = "imap_error" -> "raise"
      [] kind = "found" -> "return"
      [] OTHER -> IF i + 1 < EMAIL_MAX_RETRIES THEN "retry" ELSE "return"
AfterPoll(kind, i) ==
    CASE kind = "imap_error" -> "raise"
      [] kind = "found" -> "return"
      [] OTHER -> IF i + 1 < EMAIL_MAX_RETRIES THEN "retry" ELSE "raise"

\* lines 502-511: what `flow` records of one round; the sleep of line 510
\* follows every search that extracted no PIN
PollEvents(kind) ==
    CASE kind = "imap_error" -> <<"imap_error">>
      [] kind = "found" -> <<"search:pin">>
      [] OTHER -> <<"search:none", "sleep">>

\* _get_pin_from_gmail lines 500-514: one round of the polling loop
PinPoll ==
    /\ pc = "pin_poll"
    /\ UNCHANGED pureVars
    /\ UNCHANGED has_valid_date
    /\ \E kind \in PollKinds :
        /\ kind = "found" => _fetch_pin_from_email(mailbox) # -1
        /\ kind = "not_found" => _fetch_pin_from_email(mailbox) = -1
        /\ CASE AfterPoll(kind, pin_try) = "raise" ->
                /\ FlowRaises(PollEvents(kind), "PinRetrievalError")
                /\ LeaveRenew
             [] AfterPoll(kind, pin_try) = "return" ->
                /\ pin' = _fetch_pin_from_email(mailbox)
                /\ FlowContinues(PollEvents(kind), "token_post")
                /\ UNCHANGED <<token, pin_try, inflight>>
             [] OTHER ->
                /\ pin_try' = pin_try + 1
                /\ FlowContinues(PollEvents(kind), "pin_poll")
                /\ UNCHANGED <<pin, token, inflight>>
    /\ UNCHANGED <<servers, listings, attempted, confirmed, pin_used,
                   post_checked, started>>
    /\ UNCHANGED loginVars

\* lines 586-588: what the "rs" field of the token response leads to
AfterTokenExchangeIgnoreRs(rs) == "final_post"
AfterTokenExchange(rs) ==
    IF rs = "success" THEN "final_post" ELSE "RenewalError"

TokenEvent(rs) == IF rs = "success" THEN "token:success" ELSE "token:error"

\* lines 578-589: exchange the PIN for a token
TokenPost ==
    /\ pc = "token_post"
    /\ UNCHANGED pureVars
    /\ UNCHANGED has_valid_date
    /\ pin_used' = pin_used \cup {<<cur, pin>>}
    /\ \/ /\ FlowRaises(<<"token:request_error">>, "RequestException")
          /\ LeaveRenew
       \/ \E rs \in {"success", "error"} :
            IF AfterTokenExchange(rs) = "RenewalError"
            THEN /\ FlowRaises(<<TokenEvent(rs)>>, "RenewalError")
                 /\ LeaveRenew
            ELSE /\ FlowContinues(<<TokenEvent(rs)>>, "final_post")
                 /\ token' = IF rs = "success" THEN cur ELSE 0
                 /\ UNCHANGED <<pin, pin_try, inflight>>
    /\ UNCHANGED <<servers, listings, attempted, confirmed, post_checked,
                   started>>
    /\ UNCHANGED loginVars

\* lines 590-596: the final confirmation
FinalPost ==
    /\ pc = "final_post"
    /\ UNCHANGED pureVars
    /\ UNCHANGED has_valid_date
    /\ \/ /\ FlowRaises(<<"final:request_error">>, "RequestException")
          /\ UNCHANGED confirmed
       \/ /\ FlowReturns(<<"final:ok">>)
          /\ confirmed' = confirmed \cup {cur}
    /\ LeaveRenew
    /\ UNCHANGED <<servers, listings, attempted, pin_used, post_checked,
                   started>>
    /\ UNCHANGED loginVars

\* The provider's PIN email reaches the inbox, with or without a body the
\* pattern matches.  The inbox is read only inside the renewal loop, so mail
\* that arrives before or after it is left in flight.
Deliver ==
    /\ pc \in {"renew_select", "renew_dispatch", "settle", "pin_poll",
               "token_post", "final_post"}
    /\ UNCHANGED pureVars
    /\ UNCHANGED has_valid_date
    /\ \E t \in inflight, hp \in BOOLEAN :
        /\ mailbox' = Append(mailbox, [tag |-> t, has_pin |-> hp])
        /\ inflight' = inflight \ {t}
    /\ UNCHANGED <<pc, servers, cur, all_success, pin_try, pin, token, listings,
                   attempted, failed, pin_failed, confirmed, pin_used,
                   post_checked, started, flow, rejected, session>>
    /\ UNCHANGED runLocals
    /\ UNCHANGED loginVars

\* ------------------------------------------------ _check_post_renewal_status
\* lines 646-647, 661-667: the cooldown and the first listing of the check
\* lines 663-664: whether the first listing of the check is the last
AfterFirstRelistNoRetry(dated) == "return"
AfterFirstRelist(dated) == IF dated THEN "return" ELSE "post_retry"

PostList ==
    /\ pc = "post_list"
    /\ UNCHANGED pureVars
    /\ flow' = <<>>
    /\ \/ /\ RaiseInRun("RequestException")
          /\ UNCHANGED <<listings, post_checked, has_valid_date>>
       \/ \E listing \in Listings :
            /\ listings' = listings + 1
            /\ has_valid_date' = <<HasValidDate(listing)>>
            /\ IF AfterFirstRelist(HasValidDate(listing)) = "return"
               THEN /\ post_checked' = TRUE
                    /\ ReturnFromRun(exit_code)
               ELSE /\ pc' = "post_retry"
                    /\ UNCHANGED <<post_checked, session>>
                    /\ UNCHANGED <<notifications, notified, pending_log, ret,
                                   fatal, escaped>>
            /\ UNCHANGED <<status, exit_code>>
    /\ UNCHANGED <<servers, cur, all_success, pin_try, pin, token, mailbox,
                   inflight, attempted, failed, pin_failed, confirmed, pin_used,
                   started, rejected>>
    /\ UNCHANGED loginVars

\* lines 664-667 and run() lines 727-738: the second listing, then the end
PostRetry ==
    /\ pc = "post_retry"
    /\ UNCHANGED pureVars
    /\ UNCHANGED has_valid_date
    /\ \/ /\ RaiseInRun("RequestException")
          /\ UNCHANGED <<listings, post_checked>>
       \/ \E listing \in Listings :
            /\ listings' = listings + 1
            /\ post_checked' = TRUE
            /\ ReturnFromRun(exit_code)
            /\ UNCHANGED <<status, exit_code>>
    /\ UNCHANGED <<servers, cur, all_success, pin_try, pin, token, mailbox,
                   inflight, attempted, failed, pin_failed, confirmed, pin_used,
                   started, flow, rejected>>
    /\ UNCHANGED loginVars

Next ==
    \/ RunStart
    \/ LoginLoop
    \/ InitGet
    \/ LogoGet
    \/ CredPost
    \/ ImgGet
    \/ ApiFirst
    \/ Local
    \/ ApiFallback
    \/ CaptchaPost
    \/ TwoFaPost
    \/ ListServers
    \/ RenewSelect
    \/ RenewDispatch
    \/ Settle
    \/ PinPoll
    \/ TokenPost
    \/ FinalPost
    \/ Deliver
    \/ PostList
    \/ PostRetry

Spec == Init /\ [][Next]_vars

\* run() is one thread and each of its steps is a call that returns or fails
\* in finite time: a step that can be taken is taken.  Mail delivery is the
\* environment's and is not forced.
RunStep == Next /\ ~Deliver
SpecLive == Spec /\ WF_vars(RunStep)

\* ===================================================== _safe_eval_math
\* _safe_eval_math(expr), lines 121-138, called on its own with every string
\* of at most MaxExprLen characters over Alphabet.  ast.parse is modelled by
\* what Python's tokenizer and expression grammar do with these characters.
MaxExprLen == 5

Digits == {"0", "1", "2"}
\* "b" is a letter that is an identifier character and, after a leading 0,
\* the prefix of a binary integer literal
Letters == {"b"}
Operators == {"+", "-", "*", "/"}
Alphabet == Digits \cup Letters \cup Operators
Exprs == UNION {[1..n -> Alphabet] : n \in 0..MaxExprLen}

\* Python's None as a result, and a returned integer
None == {}
Returned(n) == {n}

\* --- tokenizer: a maximal run of digits and letters is one word, "**" and
\* "//" are one operator each
IsWordChar(c) == c \in Digits \cup Letters
WordLen(s) ==
    IF \A i \in 1..Len(s) : IsWordChar(s[i]) THEN Len(s)
    ELSE (CHOOSE i \in 1..Len(s) :
              /\ ~IsWordChar(s[i])
              /\ \A j \in 1..(i - 1) : IsWordChar(s[j])) - 1
TokenLen(s) ==
    IF IsWordChar(s[1]) THEN WordLen(s)
    ELSE IF Len(s) >= 2 /\ s[1] \in {"*", "/"} /\ s[2] = s[1] THEN 2
    ELSE 1
RECURSIVE Tokenize(_)
Tokenize(s) ==
    IF s = <<>> THEN <<>>
    ELSE <<SubSeq(s, 1, TokenLen(s))>>
         \o Tokenize(SubSeq(s, TokenLen(s) + 1, Len(s)))

\* --- integer literals: decimal without a leading zero (or zeros only), and
\* binary "0b" followed by binary digits
IsDecimal(w) ==
    /\ \A i \in 1..Len(w) : w[i] \in Digits
    /\ (w[1] # "0" \/ \A i \in 1..Len(w) : w[i] = "0")
IsBinary(w) ==
    /\ Len(w) >= 3
    /\ w[1] = "0"
    /\ w[2] = "b"
    /\ \A i \in 3..Len(w) : w[i] \in {"0", "1"}
IsNumber(w) == IsDecimal(w) \/ IsBinary(w)
DigitValue(c) == CASE c = "0" -> 0 [] c = "1" -> 1 [] c = "2" -> 2
RECURSIVE BaseValue(_, _)
BaseValue(w, base) ==
    IF w = <<>> THEN 0
    ELSE base * BaseValue(SubSeq(w, 1, Len(w) - 1), base) + DigitValue(w[Len(w)])
\* ast.Constant.value of a number token
NumberValue(w) ==
    IF IsBinary(w) THEN BaseValue(SubSeq(w, 3, Len(w)), 2) ELSE BaseValue(w, 10)

\* --- parser.  Without parentheses an expression whose tree holds only
\* ast.Constant numbers and ast.BinOp nodes of the four operators is
\* number (operator number)*.  Every other token sequence is either no
\* expression (SyntaxError) or holds a node _eval rejects (ast.Name,
\* ast.UnaryOp, ast.Pow, ast.FloorDiv: ValueError at line 133).
IsArithmetic(toks) ==
    /\ Len(toks) % 2 = 1
    /\ \A i \in 1..Len(toks) :
          IF i % 2 = 1 THEN IsNumber(toks[i])
          ELSE Len(toks[i]) = 1 /\ toks[i][1] \in Operators
\* The root of the tree ast.parse builds: the rightmost + or -, or when
\* there is none the rightmost operator.
IsAdditive(op) == op \in {"+", "-"}
RootLastOperator(toks) == Len(toks) - 1
Root(toks) ==
    LET adds == {i \in 1..Len(toks) : i % 2 = 0 /\ IsAdditive(toks[i][1])}
    IN IF adds # {} THEN CHOOSE i \in adds : \A j \in adds : j <= i
       ELSE Len(toks) - 1

\* ops, lines 123-124, applied at line 131; ZeroDivisionError is caught at
\* line 137
Apply(op, a, b) ==
    CASE op = "+" -> Returned(a + b)
      [] op = "-" -> Returned(a - b)
      [] op = "*" -> Returned(a * b)
      [] op = "/" -> IF b = 0 THEN None ELSE Returned(a \div b)
\* _eval, lines 126-133, on the tree of an arithmetic token sequence
RECURSIVE _eval(_)
_eval(toks) ==
    IF Len(toks) = 1 THEN Returned(NumberValue(toks[1]))
    ELSE LET r == Root(toks)
             left == _eval(SubSeq(toks, 1, r - 1))
             right == _eval(SubSeq(toks, r + 1, Len(toks)))
         IN IF left = None \/ right = None THEN None
            ELSE Apply(toks[r][1], CHOOSE a \in left : TRUE,
                       CHOOSE b \in right : TRUE)

_safe_eval_math(e) ==
    IF IsArithmetic(Tokenize(e)) THEN _eval(Tokenize(e)) ELSE None

InitMath ==
    /\ Imported
    /\ called = "math"
    /\ expr \in Exprs
    /\ math_result = None
    /\ HotpIdle
    /\ ExtractorIdle

EvalMath ==
    /\ called = "math"
    /\ called' = "math_done"
    /\ math_result' = _safe_eval_math(expr)
    /\ UNCHANGED <<expr, hotpVars, extractorVars>>
    /\ UNCHANGED runVars

NextMath == EvalMath

SpecMath == InitMath /\ [][NextMath]_vars

\* =============================================================== _hotp
\* _hotp(key, counter), lines 106-113, called on its own.  HMAC-SHA1 is
\* not computed: the digest it returns for the key bytes and counter of the
\* call is chosen by the environment and is the same whenever it is asked
\* for again.
MaxKeyLen == 2

\* the base32 letters A (value 0) and Q (value 16), in both cases
KeyChars == {"a", "A", "q", "Q"}
Keys == UNION {[1..n -> KeyChars] : n \in 0..MaxKeyLen}
Counters == {0, 1}
digits == 6

\* str.upper on the characters of a key
UpperIdentity(k) == k
upper(k) ==
    [i \in 1..Len(k) |-> CASE k[i] = "a" -> "A" [] k[i] = "q" -> "Q"
                           [] OTHER -> k[i]]
\* '=' * n
Equals(n) == [i \in 1..n |-> "="]

\* --- base64.b32decode without casefold: the input is a multiple of 8
\* characters, the data characters are upper case, the padding is 0, 1, 3,
\* 4 or 6 characters; 5 bits per character, whole bytes only
B32Value(c) == CASE c = "A" -> 0 [] c = "Q" -> 16
RECURSIVE Pow(_, _)
Pow(b, e) == IF e = 0 THEN 1 ELSE b * Pow(b, e - 1)
RECURSIVE B32Number(_)
B32Number(w) ==
    IF w = <<>> THEN 0
    ELSE 32 * B32Number(SubSeq(w, 1, Len(w) - 1)) + B32Value(w[Len(w)])
DecodeError == [n |-> -1, v |-> 0]
b32decode(s) ==
    LET pad == Cardinality({i \in 1..Len(s) : s[i] = "="})
        data == SubSeq(s, 1, Len(s) - pad)
    IN IF \/ Len(s) % 8 # 0
          \/ \E i \in 1..Len(data) : data[i] \notin {"A", "Q"}
          \/ pad \notin {0, 1, 3, 4, 6}
       THEN DecodeError
       ELSE [n |-> (5 * Len(data)) \div 8,
             v |-> B32Number(data) \div Pow(2, (5 * Len(data)) % 8)]
\* line 108
KeyBytes(k) == b32decode(upper(k) \o Equals((8 - Len(k)) % 8))

\* --- the 20 bytes of a digest; the last byte selects the offset
Fills == {"zeros", "ones", "ramp", "sparse"}
LastBytes == 0..15 \cup {250}
Digest(fill, last) ==
    [i \in 1..20 |->
        IF i = 20 THEN last
        ELSE CASE fill = "zeros" -> 0
               [] fill = "ones" -> 255
               [] fill = "ramp" -> (i * 13) % 256
               [] fill = "sparse" -> IF i % 4 = 0 THEN i ELSE 0]
Digests == {Digest(fill, last) : fill \in Fills, last \in LastBytes}

\* lines 111-112: offset = mac[-1] & 0x0f, then the four bytes from offset
\* as a big-endian number with the top bit cleared (& 0x7fffffff)
Offset(mac) == mac[20] % 16
Truncate(mac) ==
    LET o == Offset(mac)
    IN (mac[o + 1] % 128) * 16777216 + mac[o + 2] * 65536
       + mac[o + 3] * 256 + mac[o + 4]

\* --- line 113: str(binary)[-digits:].zfill(digits)
DecimalDigits == <<"0", "1", "2", "3", "4", "5", "6", "7", "8", "9">>
RECURSIVE str(_)
str(n) ==
    IF n < 10 THEN <<DecimalDigits[n + 1]>>
    ELSE Append(str(n \div 10), DecimalDigits[(n % 10) + 1])
LastChars(t, w) == IF Len(t) <= w THEN t ELSE SubSeq(t, Len(t) - w + 1, Len(t))
ZFillNone(t, w) == t
zfill(t, w) == IF Len(t) >= w THEN t ELSE [i \in 1..(w - Len(t)) |-> "0"] \o t

\* what a call that raised left behind
Raised == <<"binascii.Error">>

_hotp(k, ctr) ==
    IF KeyBytes(k) = DecodeError THEN Raised
    ELSE zfill(LastChars(str(Truncate(hmac_sha1[<<KeyBytes(k), ctr>>])),
                         digits), digits)

\* the same secret in any letter case
Recased(k) == {k2 \in Keys : Len(k2) = Len(k) /\ upper(k2) = upper(k)}

InitHotp ==
    /\ Imported
    /\ called = "hotp"
    /\ MathIdle
    /\ ExtractorIdle
    /\ key \in Keys
    /\ counter \in Counters
    /\ hmac_sha1 \in [IF KeyBytes(key) = DecodeError THEN {}
                      ELSE {<<KeyBytes(key), counter>>} -> Digests]
    /\ otp = <<>>
    /\ key_again = <<>>
    /\ otp_again = <<>>

HotpCall ==
    /\ called = "hotp"
    /\ called' = "hotp_done"
    /\ otp' = _hotp(key, counter)
    /\ UNCHANGED <<key, counter, hmac_sha1, key_again, otp_again>>
    /\ UNCHANGED <<mathVars, extractorVars>>
    /\ UNCHANGED runVars

\* a second call with the same counter and the same secret, in any case
HotpCallAgain ==
    /\ called = "hotp_done"
    /\ called' = "hotp_again"
    /\ \E k2 \in Recased(key) :
        /\ key_again' = k2
        /\ otp_again' = _hotp(k2, counter)
    /\ UNCHANGED <<key, counter, hmac_sha1, otp>>
    /\ UNCHANGED <<mathVars, extractorVars>>
    /\ UNCHANGED runVars

NextHotp ==
    \/ HotpCall
    \/ HotpCallAgain

SpecHotp == InitHotp /\ [][NextHotp]_vars

\* ====================================================== get_euserv_pin
\* src/pin_extractor.py, get_euserv_pin, called on its own (renewal_script.py
\* line 195).  One action is one round of its loop: connect, log in, search,
\* fetch the latest message.  The inbox may receive messages between rounds.
MaxInbox == 3
ExtractorTries == 3

ExtractorInboxes == UNION {[1..n -> BOOLEAN] : n \in 0..1}

\* how one round can go: an IMAP call raises; the search is answered with
\* no message; the latest message holds a PIN; or it holds none
ExtractorKinds == {"imap_error", "not_found", "found", "no_pin"}
\* lines 27-58: what round n of the loop does
AfterExtractorPoll(kind, n) ==
    CASE kind = "imap_error" -> "raise:error"
      [] kind = "found" -> "return"
      [] kind = "no_pin" -> "raise:ValueError"
      [] OTHER -> IF n + 1 < ExtractorTries THEN "retry" ELSE "raise:Exception"
\* what the call's log records of one round; the sleep of line 53 follows
\* only a search that found no message
ExtractorEvents(kind) ==
    CASE kind = "imap_error" -> <<"imap_error">>
      [] kind = "found" -> <<"search:pin">>
      [] kind = "no_pin" -> <<"search:no_pin">>
      [] OTHER -> <<"search:none", "sleep">>

InitExtractor ==
    /\ Imported
    /\ called = "extractor"
    /\ MathIdle
    /\ HotpIdle
    /\ ex_inbox \in ExtractorInboxes
    /\ ex_try = 0
    /\ ex_log = <<>>
    /\ ex_result = "running"

ExtractorPoll ==
    /\ called = "extractor"
    /\ ex_result = "running"
    /\ \E kind \in ExtractorKinds :
        /\ kind = "not_found" => ex_inbox = <<>>
        /\ kind = "found" => (ex_inbox # <<>> /\ ex_inbox[Len(ex_inbox)])
        /\ kind = "no_pin" => (ex_inbox # <<>> /\ ~ex_inbox[Len(ex_inbox)])
        /\ ex_log' = ex_log \o ExtractorEvents(kind)
        /\ IF AfterExtractorPoll(kind, ex_try) = "retry"
           THEN ex_try' = ex_try + 1 /\ UNCHANGED ex_result
           ELSE ex_result' = AfterExtractorPoll(kind, ex_try)
                /\ UNCHANGED ex_try
    /\ UNCHANGED <<called, ex_inbox, mathVars, hotpVars>>
    /\ UNCHANGED runVars

\* a matching message arrives, with or without a PIN in its body
ExtractorDeliver ==
    /\ called = "extractor"
    /\ ex_result = "running"
    /\ Len(ex_inbox) < MaxInbox
    /\ \E hp \in BOOLEAN : ex_inbox' = Append(ex_inbox, hp)
    /\ UNCHANGED <<called, ex_try, ex_log, ex_result, mathVars, hotpVars>>
    /\ UNCHANGED runVars

NextExtractor ==
    \/ ExtractorPoll
    \/ ExtractorDeliver

SpecExtractor == InitExtractor /\ [][NextExtractor]_vars

\* ================================================================ claims
Events == {trace[i] : i \in DOMAIN trace}
LastOf(seq) == IF seq = <<>> THEN "" ELSE seq[Len(seq)]
FailureKinds == {"fail", "request", "cookie"}
\* the current attempt has ended and its locals are still in place
AttemptEnded == pc \in {"login_loop", "logged_in"} /\ trace # <<>>
\* ... and its last request was answered
Answered == AttemptEnded /\ LastOf(outcomes) # "request"

\* C1: a PinRetrievalError during the renewal of one contract is caught per
\* contract: the contract is logged as failed, every remaining renewable
\* contract is still attempted, the post check is reached and run() returns
\* the failure classification.
C1_PinFailureIsolated ==
    (pc = "done" /\ pin_failed # {} /\ escaped = "none")
        => /\ pin_failed \subseteq failed
           /\ Renewable(servers) \subseteq attempted
           /\ post_checked
           /\ ret = EXIT_FAILURE

\* C2: a CaptchaError in login attempt k < 3 ends only that attempt: the
\* login loop goes on with attempt k+1, and the run is aborted because of a
\* CAPTCHA failure only when all 3 attempts have been made.
C2_CaptchaErrorEndsOnlyAttempt ==
    /\ \A k \in DOMAIN outcomes :
         (outcomes[k] = "captcha_error" /\ k < 3)
            => (k < Len(outcomes) \/ pc = "login_loop")
    /\ fatal = "CaptchaError" => Len(outcomes) = 3

\* C3: the PIN presented in the token exchange for contract c comes from the
\* email the provider sent for c's own PIN dispatch, never from another
\* contract's dispatch or from an earlier one.
C3_PinBelongsToContract ==
    \A p \in pin_used : p[2] = p[1]

\* C4: _perform_login makes at most 3 attempts, returns at the first
\* successful one without starting another, raises LoginError exactly when 3
\* attempts failed (by returning failure or by a request/cookie error), and
\* LoginError makes run() return failure without listing or renewing.
C4_LoginLoopBound ==
    /\ Len(outcomes) <= 3
    /\ current_login_attempt <= 3
    /\ \A k \in DOMAIN outcomes :
         outcomes[k] = "success" => (k = Len(outcomes) /\ pc = "logged_in")
    /\ pc = "logged_in" => (outcomes # <<>> /\ LastOf(outcomes) = "success")
    /\ fatal = "LoginError"
         => /\ Len(outcomes) = 3
            /\ \A k \in DOMAIN outcomes : outcomes[k] \in FailureKinds
            /\ pc = "done" /\ ret = EXIT_FAILURE
            /\ listings = 0 /\ attempted = {} /\ servers = <<>>
    /\ (Len(outcomes) = 3 /\ \A k \in DOMAIN outcomes : outcomes[k] \in FailureKinds)
         => (pc = "login_loop" \/ (pc = "done" /\ fatal = "LoginError"))

C4_Witness ==
    /\ pc = "done"
    /\ fatal = "LoginError"
    /\ outcomes = <<"fail", "request", "cookie">>

\* C5: a login attempt reports success only if the most recent portal
\* response of that attempt contains a success indicator; an attempt whose
\* last response has none returns failure and the loop retries.
C5_SuccessNeedsIndicator ==
    /\ pc = "logged_in"
         => /\ "hello" \in last_resp \/ "confirm" \in last_resp
            /\ f = last_resp
            /\ sess_id = sess_local /\ sess_id # 0
    /\ (Answered /\ LastOf(trace) \in {"cred_post", "captcha_post", "twofa_post"}
          /\ "hello" \notin last_resp /\ "confirm" \notin last_resp)
         => (pc = "login_loop" /\ LastOf(outcomes) = "fail"
             /\ attempt = Len(outcomes))

C5_Witness ==
    /\ pc = "logged_in"
    /\ "captcha_post" \in Events
    /\ LastOf(trace) = "twofa_post"
    /\ last_resp = {"confirm"}

\* C6: when the response to the credential POST holds a success indicator,
\* the attempt returns success without fetching a CAPTCHA image, running the
\* solver, generating a TOTP code or posting a 2FA form, whatever other
\* markers the response holds.
C6_ImmediateSuccess ==
    ("hello" \in cred_resp \/ "confirm" \in cred_resp)
        => /\ pc = "logged_in"
           /\ LastOf(outcomes) = "success"
           /\ trace = <<"init_get", "logo_get", "cred_post">>
           /\ captcha_code = ""

C6_Witness ==
    /\ pc = "logged_in"
    /\ cred_resp = {"hello", "captcha", "twofa"}

\* C7: when the CAPTCHA marker is still present in the response to the
\* answer resubmission, the attempt returns failure as a value (no
\* exception, no 2FA step), and the loop goes on to the next attempt while
\* fewer than 3 have been made.
C7_CaptchaPersists ==
    /\ []((Answered /\ LastOf(trace) = "captcha_post"
           /\ "captcha" \in last_resp)
          => /\ pc = "login_loop"
             /\ LastOf(outcomes) = "fail"
             /\ fatal = "none" /\ escaped = "none" /\ ret = -1
             /\ "totp" \notin Events /\ "twofa_post" \notin Events
             /\ attempt = Len(outcomes))
    /\ [][(pc = "login_loop" /\ attempt < 3 /\ LastOf(outcomes) = "fail")
            => (pc' = "init_get" /\ current_login_attempt' = attempt + 1)]_vars

C7_Witness ==
    /\ pc = "login_loop"
    /\ LastOf(trace) = "captcha_post"
    /\ last_resp = {"captcha", "hello", "twofa"}
    /\ Len(outcomes) = 2

C9_AttemptStartsFresh ==
    pc = "init_get" => jar = 0

\* C10: in login attempts 1 and 2, when local recognition returns a usable
\* string the remote API is never called; in attempt 3 with remote
\* credentials the remote API is called before local recognition and its
\* usable result is returned without running local recognition.
C10_SolverPolicy ==
    /\ (current_login_attempt \in {1, 2} /\ "local:answer" \in Events)
         => /\ "api:none" \notin Events /\ "api:answer" \notin Events
            /\ captcha_code = "local_ans"
    /\ (current_login_attempt >= 3 /\ cfg.api)
         => \A i \in DOMAIN trace :
              /\ trace[i] = "img_get" /\ i < Len(trace)
                   => trace[i + 1] \in {"api:none", "api:answer"}
              /\ (trace[i] = "img_get" /\ i < Len(trace)
                    /\ trace[i + 1] = "api:answer")
                   => /\ captcha_code = "api_ans"
                      /\ Events \cap {"local:none", "local:throw", "local:answer"} = {}
                      /\ (i + 2 <= Len(trace) => trace[i + 2] = "captcha_post")

C10_Witness ==
    /\ current_login_attempt = 3
    /\ cfg.api
    /\ pc = "captcha_post"
    /\ captcha_code = "api_ans"
    /\ LastOf(trace) = "api:answer"

\* C11: when local recognition returns nothing or throws, the remote API is
\* called as fallback if credentials are configured, and its usable result is
\* the solver's answer; when neither path yields a result, or there are no
\* credentials, the solver raises CaptchaError.  The solver never returns an
\* empty answer.
C11_FallbackOrCaptchaError ==
    /\ \A i \in DOMAIN trace :
         trace[i] \in {"local:none", "local:throw"}
            => IF cfg.api
               THEN \/ (i = Len(trace) /\ pc = "api_fallback")
                    \/ /\ i < Len(trace)
                       /\ trace[i + 1] \in {"api:none", "api:answer"}
                       /\ trace[i + 1] = "api:answer"
                            => /\ captcha_code = "api_ans"
                               /\ (i + 1 = Len(trace) => pc = "captcha_post")
                               /\ (i + 1 < Len(trace)
                                     => trace[i + 2] = "captcha_post")
                       /\ trace[i + 1] = "api:none"
                            => /\ i + 1 = Len(trace)
                               /\ pc = "done" /\ fatal = "CaptchaError"
                               /\ LastOf(outcomes) = "captcha_error"
               ELSE /\ i = Len(trace)
                    /\ pc = "done" /\ fatal = "CaptchaError"
                    /\ LastOf(outcomes) = "captcha_error"
    /\ pc = "captcha_post" => captcha_code \in {"local_ans", "api_ans"}
    /\ "captcha_post" \in Events => captcha_code \in {"local_ans", "api_ans"}
    /\ fatal = "CaptchaError"
         => LastOf(trace) \in {"local:none", "local:throw", "api:none"}

C11_Witness ==
    /\ pc = "captcha_post"
    /\ current_login_attempt = 3
    /\ trace[Len(trace) - 1] = "local:throw"
    /\ LastOf(trace) = "api:answer"
    /\ captcha_code = "api_ans"

\* ------------------------------------------------ the steps of one _renew
FlowEvents == {flow[i] : i \in DOMAIN flow}
FlowCount(evs) == Cardinality({i \in DOMAIN flow : flow[i] \in evs})
SearchEvents == {"search:pin", "search:none"}
PollingEvents == SearchEvents \cup {"sleep", "imap_error"}
TokenEvents == {"token:success", "token:error", "token:request_error"}
FinalEvents == {"final:ok", "final:request_error"}
RaiseEvents == {"raise:RenewalError", "raise:PinRetrievalError",
                "raise:RequestException"}
FlowEnded == flow # <<>> /\ LastOf(flow) \in RaiseEvents \cup {"return"}
\* the place of a step in the documented order of the flow
Rank(ev) ==
    CASE ev = "select" -> 1
      [] ev = "dispatch" -> 2
      [] ev = "settle" -> 3
      [] ev \in PollingEvents -> 4
      [] ev \in TokenEvents -> 5
      [] ev \in FinalEvents -> 6
      [] OTHER -> 7

\* C12: _get_pin_from_gmail makes at most 3 search attempts; when none of
\* them finds a message with a PIN it raises PinRetrievalError after exactly 3,
\* with a sleep between consecutive attempts; when the first attempt finds a
\* message with a PIN it returns that PIN: no sleep, no further connection.
C12_PollBound ==
    /\ [](/\ FlowCount(SearchEvents \cup {"imap_error"}) <= 3
          /\ (LastOf(flow) = "raise:PinRetrievalError"
                /\ "imap_error" \notin FlowEvents)
               => /\ FlowCount({"search:none"}) = 3
                  /\ "search:pin" \notin FlowEvents
          /\ FlowCount({"search:none"}) = 3
               => LastOf(flow) = "raise:PinRetrievalError"
          /\ \A i \in DOMAIN flow :
               (flow[i] \in SearchEvents /\ i < Len(flow)
                  /\ \E j \in DOMAIN flow : j > i /\ flow[j] \in SearchEvents)
                 => flow[i + 1] = "sleep"
          /\ (Len(flow) >= 4 /\ flow[4] = "search:pin")
               => /\ FlowCount(PollingEvents) = 1
                  /\ Len(flow) = 4 => (pc = "token_post" /\ pin # -1)
                  /\ Len(flow) > 4 => flow[5] \in TokenEvents)
    /\ [][(pc = "pin_poll" /\ pin_try = 0 /\ flow' # flow
             /\ _fetch_pin_from_email(mailbox) # -1
             /\ "imap_error" \notin {flow'[i] : i \in DOMAIN flow'})
            => /\ pc' = "token_post"
               /\ pin' = _fetch_pin_from_email(mailbox)
               /\ flow' = <<"select", "dispatch", "settle", "search:pin">>]_vars

C12_Witness ==
    /\ pc = "done"
    /\ fatal = "PinRetrievalError"
    /\ flow = <<"select", "dispatch", "settle", "search:none", "sleep",
                "search:none", "sleep", "search:none", "sleep",
                "raise:PinRetrievalError">>

\* C13: a connection or protocol error of the mailbox on any polling attempt
\* is raised at once as PinRetrievalError, with no sleep and no further
\* attempt after it; the other PinRetrievalError, "no PIN arrived", is raised
\* only after the attempt bound.
C13_ImapErrorImmediate ==
    /\ \A i \in DOMAIN flow :
         flow[i] = "imap_error"
            => /\ i + 1 = Len(flow)
               /\ flow[i + 1] = "raise:PinRetrievalError"
               /\ cur \in pin_failed
    /\ LastOf(flow) = "raise:PinRetrievalError"
         => \/ flow[Len(flow) - 1] = "imap_error"
            \/ /\ "imap_error" \notin FlowEvents
               /\ FlowCount({"search:none"}) = 3
    /\ pin_failed # {} => LastOf(flow) = "raise:PinRetrievalError"

C13_Witness ==
    /\ pc = "done"
    /\ fatal = "PinRetrievalError"
    /\ flow = <<"select", "dispatch", "settle", "search:none", "sleep",
                "imap_error", "raise:PinRetrievalError">>

\* C14: the steps of one renewal flow occur in the order selection POST,
\* PIN-dispatch POST, settle sleep, mailbox polling, token-exchange POST,
\* final confirmation POST; polling never starts before dispatch and settle
\* are over, and the token exchange is never sent without a PIN the fetcher
\* returned in this flow.
C14_FlowOrder ==
    /\ \A i, j \in DOMAIN flow : i < j => Rank(flow[i]) <= Rank(flow[j])
    /\ flow # <<>> => flow[1] = "select"
    /\ \A ev \in {"select", "dispatch", "settle"} : FlowCount({ev}) <= 1
    /\ FlowCount(TokenEvents) <= 1
    /\ FlowCount(FinalEvents) <= 1
    /\ FlowCount(RaiseEvents \cup {"return"}) <= 1
    /\ "settle" \in FlowEvents => "dispatch" \in FlowEvents
    /\ FlowEvents \cap PollingEvents # {} => "settle" \in FlowEvents
    /\ FlowEvents \cap TokenEvents # {} => "search:pin" \in FlowEvents
    /\ FlowEvents \cap FinalEvents # {} => "token:success" \in FlowEvents
    /\ pc = "pin_poll"
         => /\ Len(flow) >= 3
            /\ <<flow[1], flow[2], flow[3]>> = <<"select", "dispatch", "settle">>
            /\ cur \in inflight \/ \E k \in DOMAIN mailbox : mailbox[k].tag = cur
    /\ pc = "token_post" => (pin # -1 /\ LastOf(flow) = "search:pin")

C14_Witness ==
    /\ flow = <<"select", "dispatch", "settle", "search:none", "sleep",
                "search:pin", "token:success", "final:ok", "return">>
    /\ pc = "renew_select"

\* C15: the final confirmation POST of a contract is sent only after the
\* token exchange of the same flow returned rs = "success" and it carries the
\* token of that response; any other rs raises RenewalError and no
\* confirmation POST is sent.  A token is used in at most one confirmation
\* POST and never for another contract than the one it was issued for.
C15_TokenUse ==
    /\ pc = "final_post"
         => (LastOf(flow) = "token:success" /\ token = cur /\ cur # 0)
    /\ token # 0 => pc = "final_post"
    /\ \A i \in DOMAIN flow :
         /\ flow[i] \in FinalEvents => (i > 1 /\ flow[i - 1] = "token:success")
         /\ flow[i] = "token:error"
              => /\ i + 1 = Len(flow)
                 /\ flow[i + 1] = "raise:RenewalError"
                 /\ Max(attempted) \in rejected \cap failed
                 /\ Max(attempted) \notin confirmed
    /\ FlowCount(FinalEvents) <= 1
    /\ \A j, k \in DOMAIN started : j < k => started[j] # started[k]
    /\ confirmed \cap rejected = {}

C15_Witness ==
    /\ pc = "post_list"
    /\ started = <<1, 2>>
    /\ rejected = {1}
    /\ confirmed = {2}
    /\ LastOf(flow) = "return"

\* C16: when the token exchange of a renewable contract is rejected
\* (RenewalError), the contract is logged as failed, every remaining
\* renewable contract is still attempted, the post check still runs, run()
\* returns the failure classification and the notification is sent.
C16_RejectionIsolated ==
    (pc = "done" /\ rejected # {} /\ escaped = "none")
        => /\ rejected \subseteq failed
           /\ Renewable(servers) \subseteq attempted
           /\ post_checked
           /\ ret = EXIT_FAILURE
           /\ notifications = 1

\* C17: a renewal flow is started only for contracts that were renewable in
\* the listing fetched after login, at most once per contract, in listing
\* order, and one at a time: the flow of one contract has returned or raised
\* before the first request of the next one.
C17_FlowsSequential ==
    /\ \A k \in DOMAIN started :
         /\ started[k] \in Renewable(servers)
         /\ \A j \in DOMAIN started : j < k => started[j] < started[k]
         /\ \A r \in Renewable(servers) :
              r < started[k] => \E j \in DOMAIN started : j < k /\ started[j] = r
    /\ {started[k] : k \in DOMAIN started} = attempted
    /\ started # <<>> => listings >= 1
    /\ (pc = "renew_select" /\ started # <<>>) => FlowEnded
    /\ pc \in {"renew_dispatch", "settle", "pin_poll", "token_post", "final_post"}
         => (cur = LastOf(started) /\ ~FlowEnded)
    /\ pc = "renew_select" => cur \notin attempted

C17_Witness ==
    /\ pc = "pin_poll"
    /\ servers = <<"renewable", "renewable">>
    /\ started = <<1, 2>>

\* C18: when the listing after login holds at least one contract and none is
\* renewable, run() returns the skipped classification (2), starts no
\* renewal flow, makes no post-check listing (the listing is fetched exactly
\* once) and still sends the status notification.
C18_NothingDue ==
    (servers # <<>> /\ Renewable(servers) = {})
        => /\ pc = "done"
           /\ ret = EXIT_SKIPPED
           /\ fatal = "none" /\ escaped = "none"
           /\ started = <<>> /\ attempted = {} /\ flow = <<>>
           /\ listings = 1
           /\ ~post_checked
           /\ notifications = 1

C18_Witness ==
    /\ pc = "done"
    /\ ret = EXIT_SKIPPED
    /\ servers = <<"dated", "undated">>

\* C19: when the renewal flow of every renewable contract completes without
\* error, run() returns the success classification, whatever the post-check
\* listing shows.
C19_AllRenewedIsSuccess ==
    (pc = "done" /\ Renewable(servers) # {} /\ confirmed = Renewable(servers))
        => ret = EXIT_SUCCESS

\* C20: when the listing after a successful login holds no contract, run()
\* starts no renewal flow, returns the failure classification (1) and sends
\* the notification with a status other than success.
C20_EmptyListingIsFailure ==
    (pc = "done" /\ listings >= 1 /\ servers = <<>>)
        => /\ started = <<>>
           /\ ret = EXIT_FAILURE
           /\ notifications = 1
           /\ notified \notin {"success", "none"}

\* C21: when a required configuration value is missing, run() returns the
\* failure classification without login, contract listing, mailbox access
\* or renewal request, and still calls the status notification.
C21_ConfigErrorFailsFast ==
    cfg.missing # {}
        => /\ pc \in {"start", "done"}
           /\ session = "none" /\ sessions_created = 0
           /\ trace = <<>> /\ outcomes = <<>>
           /\ listings = 0 /\ servers = <<>>
           /\ started = <<>> /\ flow = <<>> /\ inflight = {}
           /\ fatal = "none" /\ escaped = "none"
           /\ pc = "done"
                => /\ ret = EXIT_FAILURE
                   /\ notifications = 1
                   /\ notified = "config_error"

C21_Witness ==
    /\ pc = "done"
    /\ cfg.missing = {"EMAIL_PASSWORD"}
    /\ ret = EXIT_FAILURE

\* C22: every execution of run(), on every path, calls the status
\* notification exactly once, and after the last step of the run's work: the
\* transcript it carries holds every line logged before it.
C22_NotifiedOnceAtEnd ==
    /\ [](/\ pc = "done" => (notifications = 1 /\ ~pending_log)
          /\ pc # "done" => notifications = 0)
    /\ [][/\ (notifications' # notifications)
              => (notifications' = notifications + 1 /\ pc' = "done")
          /\ (pc = "done") => (pc' = "done")]_vars

C22_Witness ==
    /\ pc = "done"
    /\ escaped = "RequestException"
    /\ post_checked = FALSE
    /\ started = <<1, 2>>
    /\ notifications = 1

\* C23: whatever the collaborators answer, run() ends by returning one of
\* the three codes 0, 1, 2; no failure leaves run() as an exception.
C23_AlwaysClassified ==
    pc = "done" => (ret \in {EXIT_SUCCESS, EXIT_FAILURE, EXIT_SKIPPED}
                    /\ escaped = "none")

\* the coarse class of the status string a notification carries
CoarseStatus(st) ==
    CASE st = "success" -> "success"
      [] st = "skipped" -> "skipped"
      [] st \in {"failure", "anomaly", "config_error"} -> "failure"
      [] OTHER -> "none"

\* C24: the status the notification carries agrees with the value run()
\* returns: success exactly with 0, failure exactly with 1, skipped exactly
\* with 2.
C24_StatusAgreesWithExit ==
    (pc = "done" /\ escaped = "none")
        => /\ CoarseStatus(notified) = "success" <=> ret = EXIT_SUCCESS
           /\ CoarseStatus(notified) = "failure" <=> ret = EXIT_FAILURE
           /\ CoarseStatus(notified) = "skipped" <=> ret = EXIT_SKIPPED

\* ------------------------------------------------------------------ C25
\* exact arithmetic of two non-negative integers, used to state the results
Arith(op, a, b) ==
    CASE op = "+" -> a + b
      [] op = "-" -> a - b
      [] op = "*" -> a * b
      [] op = "/" -> a \div b
\* number (operator number)* with decimal literals only
DecimalArith(toks) ==
    /\ IsArithmetic(toks)
    /\ \A i \in 1..Len(toks) : i % 2 = 1 => IsDecimal(toks[i])
\* some "/" has a literal of value 0 to its right
DividesByZero(toks) ==
    \E i \in 1..Len(toks) :
        /\ i % 2 = 0
        /\ toks[i][1] = "/"
        /\ BaseValue(toks[i + 1], 10) = 0

C26_LettersGiveNone ==
    (called = "math_done" /\ \E i \in 1..Len(expr) : expr[i] \in Letters)
        => math_result = None

\* ------------------------------------------------------------------ C27
\* a secret b32decode accepts after upper-casing and padding
ValidSecret(k) == Len(k) % 8 \in {0, 2, 4, 5, 7}
\* the number a string of decimal digits denotes
RECURSIVE DecimalOf(_)
DecimalOf(t) ==
    IF t = <<>> THEN 0
    ELSE 10 * DecimalOf(SubSeq(t, 1, Len(t) - 1))
         + (CHOOSE d \in 0..9 : DecimalDigits[d + 1] = t[Len(t)])

\* C27: for a valid secret the output of _hotp is exactly 6 decimal digits,
\* the truncated 31-bit value modulo 10^6 padded with zeros on the left; a
\* second call with the same counter and the same secret in any letter
\* case returns the same output.
C27_HotpOutput ==
    (called \in {"hotp_done", "hotp_again"} /\ ValidSecret(key)) =>
        /\ Len(otp) = 6
        /\ \A i \in 1..Len(otp) : \E d \in 1..10 : otp[i] = DecimalDigits[d]
        /\ DecimalOf(otp)
             = Truncate(hmac_sha1[<<KeyBytes(key), counter>>]) % 1000000
        /\ called = "hotp_again" => otp_again = otp

\* the lower-case secret gave 001024, and so did the upper-case one
C27_Witness ==
    /\ called = "hotp_again"
    /\ key = <<"a", "q">>
    /\ key_again = <<"A", "Q">>
    /\ otp = <<"0", "0", "1", "0", "2", "4">>
    /\ otp_again = otp

\* ------------------------------------------------------------------ C28
\* the requests among the first j steps of the latest API call
RequestsUpTo(j) == Cardinality({k \in 1..j : api_log[k] # "sleep"})
\* the trace entry of the latest _solve_captcha_api call
LastApiEvent ==
    LET at == {k \in 1..Len(trace) : trace[k] \in {"api:none", "api:answer"}}
    IN IF at = {} THEN "none" ELSE trace[CHOOSE k \in at : \A m \in at : m <= k]

\* C28: one call of _solve_captcha_api sends at most 3 requests; a failed
\* request that is not the third is followed by a sleep and another request,
\* the third failed request ends the call; a body with status "error" is
\* the last step of the call, which returns no result.
C28_ApiRetry ==
    /\ RequestsUpTo(Len(api_log)) <= 3
    /\ \A j \in 1..Len(api_log) :
        /\ (api_log[j] = "exception" /\ RequestsUpTo(j) < 3)
               => /\ Len(api_log) >= j + 2
                  /\ api_log[j + 1] = "sleep"
                  /\ api_log[j + 2] # "sleep"
        /\ (api_log[j] = "exception" /\ RequestsUpTo(j) = 3)
               => j = Len(api_log)
        /\ api_log[j] = "sleep" => (j > 1 /\ api_log[j - 1] = "exception")
        /\ api_log[j] = "error"
               => (j = Len(api_log) /\ LastApiEvent = "api:none")

\* a failed request, the wait, then a request answered with status "error"
C28_Witness ==
    /\ api_log = <<"exception", "sleep", "error">>
    /\ LastApiEvent = "api:none"
    /\ fatal = "CaptchaError"

\* ------------------------------------------------------------------ C29
\* C29 (get_euserv_pin): a round that finds the latest message without a
\* PIN sleeps and is followed by another round, unless it is the third.
C29_NoPinIsRetried ==
    \A j \in 1..Len(ex_log) :
        ex_log[j] = "search:no_pin" =>
            /\ Len(ex_log) > j
            /\ ex_log[j + 1] = "sleep"
            /\ (ex_result # "running" /\ j + 1 = Len(ex_log))
                   => (ex_result = "raise:Exception" /\ ex_try = ExtractorTries - 1)

\* The fetcher of RenewalBot, for comparison: a round of _get_pin_from_gmail
\* whose latest message holds no PIN records a fruitless search and a sleep,
\* then polls again unless it was the third round, which raises
\* PinRetrievalError.
BotFetcherRetriesWithoutPin ==
    [][(/\ pc = "pin_poll"
        /\ mailbox # <<>>
        /\ ~mailbox[Len(mailbox)].has_pin
        /\ flow' # flow
        /\ \A j \in 1..Len(flow') : flow'[j] # "imap_error")
           => IF pin_try + 1 < EMAIL_MAX_RETRIES
              THEN /\ flow' = flow \o <<"search:none", "sleep">>
                   /\ pc' = "pin_poll"
                   /\ pin_try' = pin_try + 1
              ELSE flow' = flow \o <<"search:none", "sleep",
                                     "raise:PinRetrievalError">>]_vars

\* ------------------------------------------------------------------ C30
\* C30: the post-renewal check asks for the listing a second time exactly
\* when its first listing holds no contract with a parsable date, never a
\* third time, and a run obtains at most 3 listings.
C30_RelistOnce ==
    /\ listings <= 3
    /\ pc = "post_retry" => (has_valid_date = <<FALSE>> /\ listings = 2)
    /\ has_valid_date = <<>> => (listings <= 1 /\ ~post_checked)
    /\ has_valid_date = <<TRUE>>
           => (pc = "done" /\ listings = 2 /\ post_checked)
    /\ has_valid_date = <<FALSE>>
           => \/ pc = "post_retry" /\ listings = 2 /\ ~post_checked
              \/ pc = "done" /\ listings = 3 /\ post_checked
              \/ /\ pc = "done"
                 /\ listings = 2
                 /\ ~post_checked
                 /\ escaped = "RequestException"

\* the first listing of the check showed no date and a second one was
\* fetched: three listings in the run
C30_Witness ==
    /\ pc = "done"
    /\ has_valid_date = <<FALSE>>
    /\ listings = 3
    /\ post_checked

\* ------------------------------------------------------------------ C31
\* C31: when run() has returned EXIT_SUCCESS after a listing with at least
\* one renewable contract, the final confirmation POST of every contract
\* renewable in that listing was sent and answered without an error status.
C31_SuccessMeansAllConfirmed ==
    (/\ pc = "done"
     /\ Renewable(servers) # {}
     /\ ret = EXIT_SUCCESS)
        => /\ confirmed = Renewable(servers)
           /\ failed = {}
           /\ {started[k] : k \in DOMAIN started} = Renewable(servers)

\* two renewable contracts, both confirmed, and run() returned EXIT_SUCCESS
C31_Witness ==
    /\ pc = "done"
    /\ ret = EXIT_SUCCESS
    /\ Cardinality(Renewable(servers)) = 2
    /\ confirmed = Renewable(servers)

\* ------------------------------------------------------------------ C32
\* where run() is about to send a listing request or is inside a renewal flow
PortalPhase ==
    {"logged_in", "renew_select", "renew_dispatch", "settle", "pin_poll",
     "token_post", "final_post", "post_list", "post_retry"}

\* C32: a listing request or a renewal-flow request is issued only after a
\* login attempt of the run succeeded; at each of them sess_id is set and is
\* the identifier the successful attempt obtained from its initial GET,
\* which is also what the session's cookie jar holds.
C32_RequestsNeedLogin ==
    /\ pc \in PortalPhase
           => /\ sess_id # 0
              /\ sess_id = current_login_attempt
              /\ jar = sess_id
              /\ session = "open"
    /\ pc = "logged_in"
           => (outcomes # <<>> /\ LastOf(outcomes) = "success"
               /\ sess_id = sess_local)
    /\ (listings > 0 \/ started # <<>> \/ flow # <<>> \/ has_valid_date # <<>>)
           => sess_id # 0
    /\ sess_id = 0 => pc \notin PortalPhase

\* the second login attempt succeeded after a failed first one, and a token
\* request is about to go out with the second attempt's identifier
C32_Witness ==
    /\ pc = "token_post"
    /\ current_login_attempt = 2
    /\ sess_id = 2

\* ------------------------------------------------------------------ C33
\* C33: between the fetch of one CAPTCHA image and the next, the attempt's
\* trace holds at most one call of _solve_captcha_api.
C33_ApiAtMostOncePerImage ==
    \A i \in DOMAIN trace : \A j \in DOMAIN trace :
        (/\ i < j
         /\ trace[i] \in {"api:none", "api:answer"}
         /\ trace[j] \in {"api:none", "api:answer"})
            => \E k \in DOMAIN trace : i < k /\ k < j /\ trace[k] = "img_get"

\* ------------------------------------------------------------------ C34
\* C34: when every call returns or fails in finite time, run() ends: it
\* returns or an exception leaves it.  On the way the login loop runs at
\* most 3 attempts, one API call sends at most 3 requests, one PIN fetch
\* polls at most 3 times, the post check lists at most twice, and _renew is
\* called at most once per renewable contract.
C34_RunTerminates ==
    /\ <>(pc = "done")
    /\ [](/\ attempt <= LOGIN_MAX_RETRY_COUNT
          /\ current_login_attempt <= LOGIN_MAX_RETRY_COUNT
          /\ RequestsUpTo(Len(api_log)) <= max_retries
          /\ pin_try < EMAIL_MAX_RETRIES
          /\ listings <= 3
          /\ Len(started) <= Cardinality(Renewable(servers)))

\* a run that used its third login attempt, called _renew for two
\* contracts, one of which failed, listed twice in the post check and
\* returned
C34_Witness ==
    /\ pc = "done"
    /\ ret = EXIT_FAILURE
    /\ current_login_attempt = 3
    /\ Len(started) = 2
    /\ failed # {}
    /\ listings = 3
====
